---- MODULE Spec2Model ----
(***************************************************************************)
(* The recursive-descent parser of src/src/parser.ts as a state machine.   *)
(*                                                                         *)
(* A state is one Parser object (its token array and its cursor            *)
(* `current`), the call stack of the parser's methods, the value the last  *)
(* returned method handed to its caller, and the outcome of parse().       *)
(* Every action is one resumption point of one method: it performs at most *)
(* one cursor operation (match, consume or advance) and then calls,        *)
(* returns or throws.                                                      *)
(***************************************************************************)
EXTENDS Integers, Sequences, FiniteSets, TLC

(***************************************************************************)
(* Bounds of the input space.                                              *)
(***************************************************************************)
\* every token sequence of at most MaxLen tokens (before end-of-input)
MaxLen == 3
\* generated call forms have at most MaxArgs arguments
MaxArgs == 2
\* generated lambda forms have at most MaxParams parameters
MaxParams == 2
\* parse() is called at most MaxParses times on one token sequence
MaxParses == 2

(***************************************************************************)
(* The token model (token.ts is not part of the sources; the type tags,    *)
(* lexemes and literals are those the specification and the tests name).   *)
(* A token is named by its source text.                                    *)
(***************************************************************************)
LeftBracket == "LeftBracket"
RightBracket == "RightBracket"
SymbolType == "Symbol"
NumberType == "Number"
StringType == "String"
BooleanType == "Boolean"
Eof == "Eof"

EofToken == "<eof>"
Keywords == {"if", "define", "set!", "let", "lambda"}
SymbolTokens == {"a", "b"} \cup Keywords
LiteralTokens == {"1", "\"s\"", "#t"}
Alphabet == {"(", ")"} \cup SymbolTokens \cup LiteralTokens

getTokenType(token) ==
  CASE token = "(" -> LeftBracket
    [] token = ")" -> RightBracket
    [] token = "1" -> NumberType
    [] token = "\"s\"" -> StringType
    [] token = "#t" -> BooleanType
    [] token = EofToken -> Eof
    [] OTHER -> SymbolType

getLexeme(token) == IF token = EofToken THEN "" ELSE token

\* the decoded value of a literal token
getLiteral(token) ==
  CASE token = "1" -> <<NumberType, 1>>
    [] token = "\"s\"" -> <<StringType, "s">>
    [] token = "#t" -> <<BooleanType, TRUE>>
    [] OTHER -> <<"undefined">>

(***************************************************************************)
(* The AST (parser.ts, class Expr and its subclasses).                     *)
(***************************************************************************)
NULL_VALUE == <<>>
undefined == [kind |-> "undefined"]

Call(callee, args) == [kind |-> "Call", callee |-> callee, args |-> args]
Symbol(token) == [kind |-> "Symbol", token |-> token]
Literal(value) == [kind |-> "Literal", value |-> value]
If(test, consequent, alternative) ==
  [kind |-> "If", test |-> test, consequent |-> consequent,
   alternative |-> alternative]
Define(token, value) == [kind |-> "Define", token |-> token, value |-> value]
Set(token, value) == [kind |-> "Set", token |-> token, value |-> value]
Let(bindings, body) == [kind |-> "Let", bindings |-> bindings, body |-> body]
Lambda(params, body) == [kind |-> "Lambda", params |-> params, body |-> body]
LetBindingNode(name, value) ==
  [kind |-> "LetBindingNode", name |-> name, value |-> value]

(***************************************************************************)
(* The surface syntax of the grammar: the tokens a form is written with.   *)
(* Inputs are drawn from the token sequences of generated forms, their     *)
(* prefixes (forms left unclosed), the same followed by stray tokens, and  *)
(* every short token sequence over the alphabet.                           *)
(***************************************************************************)
SeqsUpTo(S, n) == UNION {[1..k -> S] : k \in 0..n}

TokenOfLiteral(value) == CHOOSE t \in LiteralTokens : getLiteral(t) = value

RECURSIVE Unparse(_), UnparseAll(_)
Unparse(e) ==
  CASE e.kind = "Symbol" -> <<e.token>>
    [] e.kind = "Literal" ->
         IF e.value = NULL_VALUE THEN <<"(", ")">>
         ELSE <<TokenOfLiteral(e.value)>>
    [] e.kind = "Call" ->
         <<"(">> \o Unparse(e.callee) \o UnparseAll(e.args) \o <<")">>
    [] e.kind = "If" ->
         <<"(", "if">> \o Unparse(e.test) \o Unparse(e.consequent)
           \o (IF e.alternative = undefined THEN <<>>
               ELSE Unparse(e.alternative))
           \o <<")">>
    [] e.kind = "Define" -> <<"(", "define", e.token>> \o Unparse(e.value) \o <<")">>
    [] e.kind = "Set" -> <<"(", "set!", e.token>> \o Unparse(e.value) \o <<")">>
    [] e.kind = "Let" ->
         <<"(", "let", "(">> \o UnparseAll(e.bindings) \o <<")">>
           \o UnparseAll(e.body) \o <<")">>
    [] e.kind = "LetBindingNode" ->
         <<"(", e.name>> \o Unparse(e.value) \o <<")">>
    [] e.kind = "Lambda" ->
         <<"(", "lambda", "(">> \o e.params \o <<")">>
           \o UnparseAll(e.body) \o <<")">>
UnparseAll(es) ==
  IF es = <<>> THEN <<>> ELSE Unparse(Head(es)) \o UnparseAll(Tail(es))

Atoms ==
  {Symbol(t) : t \in SymbolTokens} \cup {Literal(getLiteral(t)) : t \in LiteralTokens}
Leaf == {Symbol("a"), Literal(getLiteral("1")), Literal(NULL_VALUE)}

IfForms(S) == {If(t, c, x) : t \in S, c \in S, x \in S \cup {undefined}}
DefineForms(S) == {Define("a", v) : v \in S}
SetForms(S) == {Set("a", v) : v \in S}
LetForms(S) ==
  {Let(bs, body) :
     bs \in {<<>>} \cup {<<LetBindingNode("a", v)>> : v \in S}
              \cup {<<LetBindingNode("a", Symbol("a")), LetBindingNode("a", v)>> : v \in S},
     body \in SeqsUpTo(S, 1)}
LambdaForms(S) ==
  {Lambda(ps, body) : ps \in SeqsUpTo({"a", "if"}, MaxParams), body \in SeqsUpTo(S, 1)}
CallForms(S) ==
  {Call(c, args) : c \in S, args \in SeqsUpTo(S \cup {Symbol("if")}, MaxArgs)}
FlatForms ==
  IfForms(Leaf) \cup DefineForms(Leaf) \cup SetForms(Leaf) \cup LetForms(Leaf)
    \cup LambdaForms(Leaf) \cup CallForms(Leaf)

\* one form of each kind, to nest inside another
Inner ==
  {If(Symbol("a"), Literal(getLiteral("1")), undefined),
   If(Symbol("a"), Literal(getLiteral("1")), Symbol("b")),
   Call(Symbol("a"), <<Literal(getLiteral("1"))>>),
   Define("a", Literal(getLiteral("1"))),
   Set("a", Symbol("b")),
   Let(<<>>, <<>>),
   Lambda(<<"a">>, <<Symbol("a")>>)}
Nest(k) ==
  LET a == Symbol("a")
      one == Literal(getLiteral("1"))
  IN {If(k, a, undefined), If(a, k, undefined), If(a, k, one), If(a, one, k),
      Call(k, <<>>), Call(k, <<a>>), Call(a, <<k>>), Call(a, <<k, one>>),
      Call(a, <<one, k>>), Define("a", k), Set("a", k),
      Let(<<LetBindingNode("a", k)>>, <<>>), Let(<<>>, <<k>>), Let(<<>>, <<k, a>>),
      Lambda(<<>>, <<k>>), Lambda(<<"a">>, <<k, a>>)}
NestedForms ==
  UNION {Nest(k) : k \in Inner}
    \cup {Call(Symbol("a"), <<k1, k2>>) : k1 \in Inner, k2 \in Inner}

Programs ==
  {<<e>> : e \in Atoms \cup Leaf \cup FlatForms \cup NestedForms}
    \cup {<<e1, e2>> : e1 \in Leaf \cup Inner, e2 \in Leaf \cup Inner}

\* stray tokens after a program
Tails == {<<")">>, <<"a", ")">>}
InputsOf(p) ==
  LET u == UnparseAll(p)
  IN {SubSeq(u, 1, k) : k \in 0..(Len(u) - 1)} \cup {u \o t : t \in Tails}
RawInputs == SeqsUpTo(Alphabet, MaxLen)

(***************************************************************************)
(* The state.                                                              *)
(***************************************************************************)
VARIABLES
  tokens,       \* Parser.tokens: the token array, ending with end-of-input
  program,      \* the forms `tokens` was written from (<<>> when from none)
  current,      \* Parser.current: the cursor, an index into tokens (from 0)
  stack,        \* the frames of the running methods, innermost first
  ret,          \* the value the last returned method handed to its caller
  expressions,  \* parse(): the expressions pushed so far, then the result
  status,       \* of the parse() call: "running", "returned" or "thrown"
  message,      \* the message of the SyntaxError thrown ("" when none)
  parses,       \* how many times parse() has been called on these tokens
  instance,     \* how many Parser objects have been constructed
  first         \* the outcome of the first parse() call, once it has ended

vars ==
  <<tokens, program, current, stack, ret, expressions, status, message,
    parses, instance, first>>

Top == Head(stack)
Rest == Tail(stack)
Running == status = "running"
At(fn, pcs) == Running /\ stack # <<>> /\ Top.fn = fn /\ Top.pc \in pcs

NoOutcome == [status |-> "none", expressions |-> <<>>, message |-> ""]
Outcome == [status |-> status, expressions |-> expressions, message |-> message]

ParseFrame == [fn |-> "parse", pc |-> "loop", mark |-> 0]
ExpressionFrame == [fn |-> "expression", pc |-> "start"]
AtomFrame == [fn |-> "atom", pc |-> "start"]
CallFrame ==
  [fn |-> "call", pc |-> "start", callee |-> undefined, args |-> <<>>, mark |-> 0]
IfFrame ==
  [fn |-> "if", pc |-> "advance", test |-> undefined, consequent |-> undefined,
   alternative |-> undefined]
DefineFrame == [fn |-> "define", pc |-> "advance", name |-> "", value |-> undefined]
SetFrame == [fn |-> "set", pc |-> "advance", name |-> "", value |-> undefined]
LetFrame ==
  [fn |-> "let", pc |-> "advance", bindings |-> <<>>, body |-> <<>>, mark |-> 0]
LetBindingFrame ==
  [fn |-> "letBinding", pc |-> "open", name |-> "", value |-> undefined]
LambdaFrame ==
  [fn |-> "lambda", pc |-> "advance", params |-> <<>>, body |-> <<>>, mark |-> 0]

(***************************************************************************)
(* The cursor helpers.  `current` counts from 0 as in the source, and      *)
(* tokens is a sequence from 1: tokens[current + 1] is the current token.  *)
(***************************************************************************)
peek == tokens[current + 1]
previous == tokens[current]
check(tokenType) == getTokenType(peek) = tokenType
isAtEnd == getTokenType(peek) = Eof

\* advance(): the cursor after the post-increment (the token returned is peek)
advance == current + 1

\* match(tokenType): whether it matched, and the cursor after it
match(tokenType) ==
  IF check(tokenType)
  THEN [matched |-> TRUE, current |-> current + 1]
  ELSE [matched |-> FALSE, current |-> current]

\* consume() that names the offending (current) token in its message
consume_reportsCurrent(tokenType) ==
  IF check(tokenType)
  THEN [ok |-> TRUE, token |-> peek, current |-> advance, message |-> ""]
  ELSE [ok |-> FALSE, token |-> "", current |-> current,
        message |-> "Unexpected token " \o getTokenType(peek)
                      \o ", expected " \o tokenType]

\* consume() that takes the current token without checking its type
consume_unchecked(tokenType) ==
  [ok |-> TRUE, token |-> peek, current |-> advance, message |-> ""]

\* consume(tokenType): the token consumed and the cursor after it, or the
\* message of the SyntaxError thrown
consume(tokenType) ==
  IF check(tokenType)
  THEN [ok |-> TRUE, token |-> peek, current |-> advance, message |-> ""]
  ELSE [ok |-> FALSE, token |-> "", current |-> current,
        message |-> "Unexpected token " \o getTokenType(previous)
                      \o ", expected " \o tokenType]

(***************************************************************************)
(* What a step does to the state: go on, call, return or throw.            *)
(***************************************************************************)
Step(cur, stk, r) ==
  /\ current' = cur
  /\ stack' = stk
  /\ ret' = r
  /\ UNCHANGED <<tokens, program, expressions, status, message, parses,
                 instance, first>>

\* stay in the frame
Goto(cur, frame) == Step(cur, <<frame>> \o Rest, ret)
\* call expression(); `frame` is the caller, set to resume after the call
CallInto(cur, callee, frame) == Step(cur, <<callee, frame>> \o Rest, ret)
\* return value v to the caller
Return(cur, v) == Step(cur, Rest, v)
\* throw new SyntaxError(msg): nothing catches it, parse() ends; the frames
\* are left as they were at the throw
Throw(msg) ==
  /\ status' = "thrown"
  /\ message' = msg
  /\ UNCHANGED <<tokens, program, current, stack, ret, expressions, parses,
                 instance, first>>

(***************************************************************************)
(* Construction: new Parser(tokens), current = 0, and the call of parse(). *)
(***************************************************************************)
Init ==
  /\ \/ /\ program \in Programs
        /\ tokens = UnparseAll(program) \o <<EofToken>>
     \/ /\ program = <<>>
        /\ tokens \in {i \o <<EofToken>> :
                         i \in RawInputs \cup UNION {InputsOf(p) : p \in Programs}}
  /\ current = 0
  /\ stack = <<ParseFrame>>
  /\ ret = undefined
  /\ expressions = <<>>
  /\ status = "running"
  /\ message = ""
  /\ parses = 1
  /\ instance = 1
  /\ first = NoOutcome

(***************************************************************************)
(* parse()                                                                 *)
(***************************************************************************)
\* while (!this.isAtEnd()) { const expr = this.expression(); ...
parse_loop ==
  /\ At("parse", {"loop"})
  /\ IF isAtEnd
     THEN /\ status' = "returned"
          /\ stack' = <<>>
          /\ UNCHANGED <<tokens, program, current, ret, expressions, message,
                         parses, instance, first>>
     ELSE CallInto(current, ExpressionFrame,
                   [Top EXCEPT !.pc = "push", !.mark = current])

\* ... expressions.push(expr); }
parse_push ==
  /\ At("parse", {"push"})
  /\ expressions' = Append(expressions, ret)
  /\ stack' = <<[Top EXCEPT !.pc = "loop"]>> \o Rest
  /\ UNCHANGED <<tokens, program, current, ret, status, message, parses,
                 instance, first>>

(***************************************************************************)
(* expression()                                                            *)
(***************************************************************************)
\* if (this.match(TokenType.LeftBracket)) ... else return this.atom()
expression_start ==
  /\ At("expression", {"start"})
  /\ LET m == match(LeftBracket)
     IN IF m.matched
        THEN Goto(m.current, [Top EXCEPT !.pc = "dispatch"])
        ELSE Goto(current, AtomFrame)

\* the dispatch with the set! form left out
FormFrame_withoutSet(lexeme) ==
  CASE lexeme = "if" -> IfFrame
    [] lexeme = "define" -> DefineFrame
    [] lexeme = "let" -> LetFrame
    [] lexeme = "lambda" -> LambdaFrame
    [] OTHER -> CallFrame

\* the frame of the form parser the lexeme of the next token selects
FormFrame(lexeme) ==
  CASE lexeme = "if" -> IfFrame
    [] lexeme = "define" -> DefineFrame
    [] lexeme = "set!" -> SetFrame
    [] lexeme = "let" -> LetFrame
    [] lexeme = "lambda" -> LambdaFrame
    [] OTHER -> CallFrame

\* if (this.match(TokenType.RightBracket)) return Expr.Literal(NULL_VALUE);
\* otherwise return the form the lexeme of peek() selects (the expression
\* frame hands that form's value on unchanged, so the form takes its place)
expression_dispatch ==
  /\ At("expression", {"dispatch"})
  /\ LET m == match(RightBracket)
     IN IF m.matched
        THEN Return(m.current, Literal(NULL_VALUE))
        ELSE Goto(current, FormFrame(getLexeme(peek)))

\* atom() that returns a literal instead of throwing on any other token
atom_withoutThrow ==
  /\ At("atom", {"start"})
  /\ IF match(SymbolType).matched
     THEN LET m == match(SymbolType)
          IN Return(m.current, Symbol(tokens[m.current]))
     ELSE IF \E tokenType \in {NumberType, StringType, BooleanType} :
               match(tokenType).matched
     THEN LET m == match(getTokenType(peek))
          IN Return(m.current, Literal(getLiteral(tokens[m.current])))
     ELSE Return(current, Literal(getLiteral(peek)))

(***************************************************************************)
(* atom(): the first match that succeeds decides; previous() is then the   *)
(* token matched.                                                          *)
(***************************************************************************)
atom ==
  /\ At("atom", {"start"})
  /\ IF match(SymbolType).matched
     THEN LET m == match(SymbolType)
          IN Return(m.current, Symbol(tokens[m.current]))
     ELSE IF \E tokenType \in {NumberType, StringType, BooleanType} :
               match(tokenType).matched
     THEN LET m == match(getTokenType(peek))
          IN Return(m.current, Literal(getLiteral(tokens[m.current])))
     ELSE Throw("Unexpected token: " \o getTokenType(peek))

(***************************************************************************)
(* call()                                                                  *)
(***************************************************************************)
\* const callee = this.expression();
call_callee ==
  /\ At("call", {"start"})
  /\ CallInto(current, ExpressionFrame, [Top EXCEPT !.pc = "callee"])

\* while (!this.match(TokenType.RightBracket)) args.push(this.expression());
\* return Expr.Call(callee, args);
call_args ==
  /\ At("call", {"callee", "arg"})
  /\ LET f == IF Top.pc = "callee"
              THEN [Top EXCEPT !.callee = ret]
              ELSE [Top EXCEPT !.args = Append(@, ret)]
         m == match(RightBracket)
     IN IF m.matched
        THEN Return(m.current, Call(f.callee, f.args))
        ELSE CallInto(current, ExpressionFrame,
                      [f EXCEPT !.pc = "arg", !.mark = current])

(***************************************************************************)
(* if()                                                                    *)
(***************************************************************************)
\* this.advance(); const test = this.expression();
if_advance ==
  /\ At("if", {"advance"})
  /\ CallInto(advance, ExpressionFrame, [Top EXCEPT !.pc = "test"])

\* const consequent = this.expression();
if_test ==
  /\ At("if", {"test"})
  /\ CallInto(current, ExpressionFrame,
              [Top EXCEPT !.test = ret, !.pc = "consequent"])

\* let alternative;
\* if (!this.match(TokenType.RightBracket)) alternative = this.expression();
if_consequent ==
  /\ At("if", {"consequent"})
  /\ LET f == [Top EXCEPT !.consequent = ret]
         m == match(RightBracket)
     IN IF m.matched
        THEN Goto(m.current, [f EXCEPT !.pc = "close"])
        ELSE CallInto(current, ExpressionFrame, [f EXCEPT !.pc = "alternative"])

\* this.consume(TokenType.RightBracket);
\* return Expr.If(test, consequent, alternative);
if_close ==
  /\ At("if", {"close", "alternative"})
  /\ LET f == IF Top.pc = "alternative"
              THEN [Top EXCEPT !.alternative = ret]
              ELSE Top
         c == consume(RightBracket)
     IN IF c.ok
        THEN Return(c.current, If(f.test, f.consequent, f.alternative))
        ELSE Throw(c.message)

(***************************************************************************)
(* define()                                                                *)
(***************************************************************************)
\* this.advance();
define_advance ==
  /\ At("define", {"advance"})
  /\ Goto(advance, [Top EXCEPT !.pc = "name"])

\* const name = this.consume(TokenType.Symbol); const value = this.expression();
define_name ==
  /\ At("define", {"name"})
  /\ LET c == consume(SymbolType)
     IN IF c.ok
        THEN CallInto(c.current, ExpressionFrame,
                      [Top EXCEPT !.name = c.token, !.pc = "value"])
        ELSE Throw(c.message)

\* this.consume(TokenType.RightBracket); return Expr.Define(name, value);
define_close ==
  /\ At("define", {"value"})
  /\ LET c == consume(RightBracket)
     IN IF c.ok
        THEN Return(c.current, Define(Top.name, ret))
        ELSE Throw(c.message)

(***************************************************************************)
(* set()                                                                   *)
(***************************************************************************)
set_advance ==
  /\ At("set", {"advance"})
  /\ Goto(advance, [Top EXCEPT !.pc = "name"])

set_name ==
  /\ At("set", {"name"})
  /\ LET c == consume(SymbolType)
     IN IF c.ok
        THEN CallInto(c.current, ExpressionFrame,
                      [Top EXCEPT !.name = c.token, !.pc = "value"])
        ELSE Throw(c.message)

set_close ==
  /\ At("set", {"value"})
  /\ LET c == consume(RightBracket)
     IN IF c.ok
        THEN Return(c.current, Set(Top.name, ret))
        ELSE Throw(c.message)

(***************************************************************************)
(* let() and letBinding()                                                  *)
(***************************************************************************)
\* this.advance();
let_advance ==
  /\ At("let", {"advance"})
  /\ Goto(advance, [Top EXCEPT !.pc = "open"])

\* this.consume(TokenType.LeftBracket);
let_open ==
  /\ At("let", {"open"})
  /\ LET c == consume(LeftBracket)
     IN IF c.ok
        THEN Goto(c.current, [Top EXCEPT !.pc = "bindings"])
        ELSE Throw(c.message)

\* while (!this.match(TokenType.RightBracket)) bindings.push(this.letBinding());
let_bindings ==
  /\ At("let", {"bindings", "binding"})
  /\ LET f == IF Top.pc = "binding"
              THEN [Top EXCEPT !.bindings = Append(@, ret)]
              ELSE Top
         m == match(RightBracket)
     IN IF m.matched
        THEN Goto(m.current, [f EXCEPT !.pc = "body"])
        ELSE CallInto(current, LetBindingFrame,
                      [f EXCEPT !.pc = "binding", !.mark = current])

\* while (!this.match(TokenType.RightBracket)) body.push(this.expression());
\* return new LetExpr(bindings, body);
let_body ==
  /\ At("let", {"body", "expr"})
  /\ LET f == IF Top.pc = "expr"
              THEN [Top EXCEPT !.body = Append(@, ret)]
              ELSE Top
         m == match(RightBracket)
     IN IF m.matched
        THEN Return(m.current, Let(f.bindings, f.body))
        ELSE CallInto(current, ExpressionFrame,
                      [f EXCEPT !.pc = "expr", !.mark = current])

\* this.consume(TokenType.LeftBracket);
letBinding_open ==
  /\ At("letBinding", {"open"})
  /\ LET c == consume(LeftBracket)
     IN IF c.ok
        THEN Goto(c.current, [Top EXCEPT !.pc = "name"])
        ELSE Throw(c.message)

\* const name = this.consume(TokenType.Symbol); const value = this.expression();
letBinding_name ==
  /\ At("letBinding", {"name"})
  /\ LET c == consume(SymbolType)
     IN IF c.ok
        THEN CallInto(c.current, ExpressionFrame,
                      [Top EXCEPT !.name = c.token, !.pc = "value"])
        ELSE Throw(c.message)

\* this.consume(TokenType.RightBracket); return new LetBindingNode(name, value);
letBinding_close ==
  /\ At("letBinding", {"value"})
  /\ LET c == consume(RightBracket)
     IN IF c.ok
        THEN Return(c.current, LetBindingNode(Top.name, ret))
        ELSE Throw(c.message)

(***************************************************************************)
(* lambda()                                                                *)
(***************************************************************************)
\* this.advance();
lambda_advance ==
  /\ At("lambda", {"advance"})
  /\ Goto(advance, [Top EXCEPT !.pc = "open"])

\* this.consume(TokenType.LeftBracket);
lambda_open ==
  /\ At("lambda", {"open"})
  /\ LET c == consume(LeftBracket)
     IN IF c.ok
        THEN Goto(c.current, [Top EXCEPT !.pc = "params"])
        ELSE Throw(c.message)

\* the parameter loop taking every token up to the bracket: advance() in
\* place of consume(TokenType.Symbol)
lambda_params_anyToken ==
  /\ At("lambda", {"params"})
  /\ LET m == match(RightBracket)
     IN IF m.matched
        THEN Goto(m.current, [Top EXCEPT !.pc = "body"])
        ELSE Goto(advance, [Top EXCEPT !.params = Append(@, peek)])

\* while (!this.match(TokenType.RightBracket))
\*   params.push(this.consume(TokenType.Symbol));
lambda_params ==
  /\ At("lambda", {"params"})
  /\ LET m == match(RightBracket)
         c == consume(SymbolType)
     IN IF m.matched
        THEN Goto(m.current, [Top EXCEPT !.pc = "body"])
        ELSE IF c.ok
        THEN Goto(c.current, [Top EXCEPT !.params = Append(@, c.token)])
        ELSE Throw(c.message)

\* while (!this.match(TokenType.RightBracket)) body.push(this.expression());
\* return new LambdaExpr(params, body);
lambda_body ==
  /\ At("lambda", {"body", "expr"})
  /\ LET f == IF Top.pc = "expr"
              THEN [Top EXCEPT !.body = Append(@, ret)]
              ELSE Top
         m == match(RightBracket)
     IN IF m.matched
        THEN Return(m.current, Lambda(f.params, f.body))
        ELSE CallInto(current, ExpressionFrame,
                      [f EXCEPT !.pc = "expr", !.mark = current])

(***************************************************************************)
(* The callers of the parser.                                              *)
(***************************************************************************)
Begin(cur, inst) ==
  /\ ~Running
  /\ parses < MaxParses
  /\ parses' = parses + 1
  /\ first' = IF first = NoOutcome THEN Outcome ELSE first
  /\ current' = cur
  /\ instance' = inst
  /\ stack' = <<ParseFrame>>
  /\ ret' = undefined
  /\ expressions' = <<>>
  /\ status' = "running"
  /\ message' = ""
  /\ UNCHANGED <<tokens, program>>

\* parser.parse() once more on the same Parser object, after the call
\* before it returned or threw: const expressions = []; the cursor is the
\* object's field and is where that call left it
parse == Begin(current, instance)

\* new Parser(tokens).parse() on the same tokens: private current = 0
parseInput == Begin(0, instance + 1)

Next ==
  \/ parse_loop \/ parse_push
  \/ expression_start \/ expression_dispatch
  \/ atom
  \/ call_callee \/ call_args
  \/ if_advance \/ if_test \/ if_consequent \/ if_close
  \/ define_advance \/ define_name \/ define_close
  \/ set_advance \/ set_name \/ set_close
  \/ let_advance \/ let_open \/ let_bindings \/ let_body
  \/ letBinding_open \/ letBinding_name \/ letBinding_close
  \/ lambda_advance \/ lambda_open \/ lambda_params \/ lambda_body
  \/ parse
  \/ parseInput

Spec == Init /\ [][Next]_vars

\* the parser's own steps; the calls of parse() are its callers' choice
Parsing ==
  \/ parse_loop \/ parse_push
  \/ expression_start \/ expression_dispatch
  \/ atom
  \/ call_callee \/ call_args
  \/ if_advance \/ if_test \/ if_consequent \/ if_close
  \/ define_advance \/ define_name \/ define_close
  \/ set_advance \/ set_name \/ set_close
  \/ let_advance \/ let_open \/ let_bindings \/ let_body
  \/ letBinding_open \/ letBinding_name \/ letBinding_close
  \/ lambda_advance \/ lambda_open \/ lambda_params \/ lambda_body

\* the code is synchronous and single-threaded: a parse() that has been
\* called runs on until it returns or throws
FairSpec == Spec /\ WF_vars(Parsing)

(***************************************************************************)
(* Vocabulary of the properties.                                           *)
(***************************************************************************)
Ended == status # "running"
Returned == status = "returned"
Thrown == status = "thrown"
FirstParse == parses = 1
EofIndex == Len(tokens) - 1

\* the input is exactly the token sequence of the forms in `program`
WellFormed == tokens = UnparseAll(program) \o <<EofToken>>
OneForm(kind) == WellFormed /\ Len(program) = 1 /\ program[1].kind = kind

\* ordinary bracket matching: the number of left brackets still open after
\* the first i tokens (a right bracket with none open closes nothing)
RECURSIVE Depth(_, _)
Depth(ts, i) ==
  IF i = 0 THEN 0
  ELSE LET d == Depth(ts, i - 1)
       IN CASE getTokenType(ts[i]) = LeftBracket -> d + 1
            [] getTokenType(ts[i]) = RightBracket -> IF d > 0 THEN d - 1 ELSE 0
            [] OTHER -> d
Unclosed == Depth(tokens, Len(tokens)) > 0
StrayRightBracket ==
  \E i \in 1..Len(tokens) :
    getTokenType(tokens[i]) = RightBracket /\ Depth(tokens, i - 1) = 0
Balanced == ~Unclosed /\ ~StrayRightBracket
\* the forms that start outside every bracket
TopLevelForms ==
  Cardinality({i \in 1..EofIndex :
                 /\ Depth(tokens, i - 1) = 0
                 /\ getTokenType(tokens[i]) # RightBracket})

GenericMessage(tokenType) == "Unexpected token: " \o tokenType
ConsumeMessage(previousType, tokenType) ==
  "Unexpected token " \o previousType \o ", expected " \o tokenType

----------------------------------------------------------------------------
\* C1: every well-formed `if` form, with or without the alternative, parses
\* to the one If node it was written from, the cursor resting on
\* end-of-input.
C1_IfFormParses ==
  (FirstParse /\ Ended /\ OneForm("If"))
    => (Returned /\ expressions = program /\ current = EofIndex)

----------------------------------------------------------------------------
\* C2 as claimed: whenever end-of-input is reached with a bracketed form
\* still unclosed, parse throws the generic message naming end-of-input.
C2_UnclosedIsGenericEof ==
  (FirstParse /\ Ended /\ Unclosed /\ isAtEnd)
    => (Thrown /\ message = GenericMessage(Eof))

\* the token type consume() was called with at the point a frame is at
Wanted(frame) ==
  CASE frame.pc \in {"close", "alternative", "value"} -> RightBracket
    [] frame.pc \in {"name", "params"} -> SymbolType
    [] frame.pc = "open" -> LeftBracket
    [] OTHER -> "none"

\* C2 as amended: whenever a parse by a new Parser reaches end-of-input
\* with a bracketed form still unclosed, it throws; the message is the
\* generic one naming end-of-input when it stands where an expression is expected
\* (atom), and consume's message, naming the previous token's type and the
\* expected type, when it stands where consume expects a given token.
C2_UnclosedThrowsAtEof ==
  (FirstParse /\ Ended /\ Unclosed /\ isAtEnd)
    => /\ Thrown
       /\ current = EofIndex
       /\ IF Top.fn = "atom"
          THEN message = GenericMessage(Eof)
          ELSE /\ Top.fn \in {"if", "define", "set", "let", "letBinding", "lambda"}
               /\ Wanted(Top) # "none"
               /\ message = ConsumeMessage(getTokenType(previous), Wanted(Top))

\* an unclosed define form met end-of-input at its closing consume
C2_Witness ==
  /\ FirstParse /\ Thrown /\ Unclosed /\ isAtEnd
  /\ Top.fn = "define" /\ Top.pc = "value"
  /\ message = ConsumeMessage(NumberType, RightBracket)

----------------------------------------------------------------------------
\* C3: a token sequence with a right bracket that matches no left bracket
\* never parses: parse throws, so every sequence parse returns on has
\* balanced brackets.
C3_StrayRightBracketThrows ==
  (FirstParse /\ Ended /\ StrayRightBracket) => Thrown

----------------------------------------------------------------------------
\* C4: when parse returns, the cursor rests on end-of-input and the result
\* holds one expression per top-level form (none for an input of only
\* end-of-input).
C4_OneExpressionPerForm ==
  (FirstParse /\ Returned)
    => /\ current = EofIndex
       /\ Len(expressions) = TopLevelForms
       /\ (Len(tokens) = 1 => expressions = <<>>)

----------------------------------------------------------------------------
\* C5: every well-formed generic call form parses to the Call node it was
\* written from: its callee, then its arguments in source order, nested
\* as the brackets are.
C5_CallFormParses ==
  (FirstParse /\ Ended /\ OneForm("Call"))
    => (Returned /\ expressions = program)

----------------------------------------------------------------------------
\* C6: every parse() call over the same tokens, also a later call on the
\* same Parser object, ends as the first one did, with an equal result.
C6_ReparseIsEqual ==
  (Ended /\ parses > 1) => Outcome = first

----------------------------------------------------------------------------
\* in the parameter loop, and when it is left, params is the symbol tokens
\* read since the left bracket after `lambda`
C7_ParamsRead ==
  At("lambda", {"params", "body"})
    => LET n == Len(Top.params)
           last == IF Top.pc = "body" THEN current - 1 ELSE current
       IN /\ Top.params = SubSeq(tokens, last - n + 1, last)
          /\ \A i \in 1..n : getTokenType(Top.params[i]) = SymbolType
          /\ getTokenType(tokens[last - n]) = LeftBracket
          /\ getLexeme(tokens[last - n - 1]) = "lambda"
          /\ (Top.pc = "body" => getTokenType(previous) = RightBracket)
\* a Lambda node handed to a caller has symbol tokens only in params
C7_NodesHaveSymbols ==
  ret.kind = "Lambda"
    => \A i \in 1..Len(ret.params) : getTokenType(ret.params[i]) = SymbolType
\* a lambda form over atoms, with up to MaxParams parameters and an empty
\* or one-expression body, parses to the node it was written from
C7_FlatLambdaParses ==
  (FirstParse /\ Ended /\ WellFormed /\ Len(program) = 1
     /\ program[1] \in LambdaForms(Leaf))
    => (Returned /\ expressions = program)
\* one turn of the parameter loop: close the list, take a symbol, or throw
C7_ParamStep ==
  At("lambda", {"params"})
    => CASE getTokenType(peek) = RightBracket ->
              /\ status' = "running" /\ current' = current + 1
              /\ stack'[1] = [Top EXCEPT !.pc = "body"]
         [] getTokenType(peek) = SymbolType ->
              /\ status' = "running" /\ current' = current + 1
              /\ stack'[1] = [Top EXCEPT !.params = Append(@, peek)]
         [] OTHER ->
              /\ status' = "thrown" /\ current' = current
              /\ message' = ConsumeMessage(getTokenType(previous), SymbolType)
----------------------------------------------------------------------------
\* the lexeme that selects method fn
KeywordOf(fn) ==
  CASE fn = "if" -> "if"
    [] fn = "define" -> "define"
    [] fn = "set" -> "set!"
    [] fn = "let" -> "let"
    [] fn = "lambda" -> "lambda"
    [] OTHER -> ""
\* where the form parsers are entered
C8_FormsEntered ==
  /\ At("expression", {"dispatch"}) => getTokenType(previous) = LeftBracket
  /\ \A fn \in {"if", "define", "set", "let", "lambda"} :
       At(fn, {"advance"})
         => /\ getTokenType(previous) = LeftBracket
            /\ getLexeme(peek) = KeywordOf(fn)
  /\ At("call", {"start"})
       => /\ getTokenType(previous) = LeftBracket
          /\ getLexeme(peek) \notin Keywords
          /\ getTokenType(peek) # RightBracket
\* atoms (keyword lexemes among them), the empty list and calls over them
\* parse to the node they were written from
C8_AtomsAndCallsParse ==
  (FirstParse /\ Ended /\ WellFormed
     /\ program \in {<<e>> : e \in Atoms \cup Leaf \cup CallForms(Leaf)})
    => (Returned /\ expressions = program)
\* the step after a left bracket, and the step of atom on a symbol token
C8_DispatchStep ==
  /\ (At("expression", {"dispatch"}) /\ check(RightBracket))
       => /\ ret' = Literal(NULL_VALUE)
          /\ current' = current + 1
          /\ stack' = Rest
  /\ (At("expression", {"dispatch"}) /\ ~check(RightBracket))
       => /\ current' = current
          /\ stack' = <<stack'[1]>> \o Rest
          /\ IF getLexeme(peek) \in Keywords
             THEN KeywordOf(stack'[1].fn) = getLexeme(peek)
             ELSE stack'[1].fn = "call"
  /\ (At("atom", {"start"}) /\ getTokenType(peek) = SymbolType)
       => /\ ret' = Symbol(peek)
          /\ current' = current + 1
          /\ stack' = Rest
\* C8: at every expression position a left bracket directly followed by a
\* right bracket yields the empty-list Literal, consuming those two tokens
\* and entering no form parser; a special-form parser is entered only right
\* after a left bracket and only on its own lexeme, every other lexeme
\* there enters call; the same lexemes at atom position are Symbol atoms.
C8_Dispatch ==
  /\ [](C8_FormsEntered /\ C8_AtomsAndCallsParse)
  /\ [][C8_DispatchStep]_vars

\* a call whose arguments are a bare `if` and an empty bracket pair
C8_Witness ==
  /\ FirstParse /\ Returned
  /\ expressions = <<Call(Symbol("a"), <<Symbol("if"), Literal(NULL_VALUE)>>)>>

----------------------------------------------------------------------------
C9_CursorInRange == 0 <= current /\ current <= EofIndex
C9_CursorStep ==
  instance' = instance => (current' = current \/ current' = current + 1)
\* C9: the cursor stays between 0 and the index of the end-of-input token,
\* which is never consumed, and every step of one Parser object leaves it
\* unchanged or adds one, also the steps that throw.
C9_Cursor == []C9_CursorInRange /\ [][C9_CursorStep]_vars

\* a parse that threw with the cursor on end-of-input, three tokens in
C9_Witness == Thrown /\ current = EofIndex /\ current >= 3

----------------------------------------------------------------------------
\* back at the head of a loop, the cursor is past where the turn began
C10_LoopProgress ==
  (\/ At("parse", {"push"})
   \/ At("call", {"arg"})
   \/ At("let", {"binding", "expr"})
   \/ At("lambda", {"expr"}))
    => current > Top.mark
\* a turn of the parameter loop consumes a token or throws; a throw
\* consumes nothing, and nothing follows it but a new parse() call
C10_LoopStep ==
  /\ At("lambda", {"params"}) => (current' = current + 1 \/ status' = "thrown")
  /\ (Running /\ status' = "thrown") => current' = current
  /\ Thrown => parses' = parses + 1
\* C10: every parse() call ends, returning or throwing; every iteration of
\* the top-level loop and of the loops of call, let and lambda has consumed
\* a token when it comes round; and a throw consumes nothing and ends the
\* call: after it nothing happens until parse() is called again.
C10_Terminates ==
  /\ Running ~> Ended
  /\ []C10_LoopProgress
  /\ [][C10_LoopStep]_vars

\* a let form threw in the second expression of its body
C10_Witness ==
  /\ Thrown
  /\ \E i \in DOMAIN stack :
       /\ stack[i].fn = "let" /\ stack[i].pc = "expr"
       /\ Len(stack[i].body) = 1

====
